---- MODULE Spec2Model ----
(***************************************************************************)
(* Model of src/netplan.c: the serialisation of one NetplanNetDefinition   *)
(* to a netplan YAML file.  Every source statement that calls the libyaml  *)
(* emitter is one action (named after its source line); the emitter call   *)
(* either appends one event to the document or fails, and a failure takes  *)
(* the `goto error` of the enclosing C function.                           *)
(***************************************************************************)
EXTENDS Integers, Sequences, FiniteSets

(* ---------------------------------------------------------------- bounds *)
\* passthrough entries per backend-settings record
MaxKeys == 2
\* access points per definition
MaxAPs == 2
\* modem string parameters that may be present at once
MaxModem == 2
\* optional members set in one definition
MaxSet == 2

(* ------------------------------------------------------------ data model *)
\* a C NULL pointer (absent string, absent FILE)
NULL == "NULL"

KeyNames == <<"k1", "k2", "k3", "k4">>
ValNames == <<"v1", "v2", "v3", "v4">>
SsidNames == <<"ssid1", "ssid2", "ssid3", "ssid4">>

\* NetplanDefType values this file distinguishes
DefTypes == {"ETHERNET", "WIFI", "MODEM", "OTHER"}

\* netplan_def_type_to_str[]
netplan_def_type_to_str ==
    [t \in DefTypes |->
        CASE t = "ETHERNET" -> "ethernets"
          [] t = "WIFI" -> "wifis"
          [] t = "MODEM" -> "modems"
          [] t = "OTHER" -> "nm-devices"]

\* netplan_backend_to_name[]
netplan_backend_to_name ==
    [b \in {"NETWORKD", "NM"} |->
        IF b = "NM" THEN "NetworkManager" ELSE "networkd"]

WifiModes == {"INFRASTRUCTURE", "ADHOC", "OTHER"}

\* netplan_wifi_mode_to_str[]; never indexed with OTHER by the source
netplan_wifi_mode_to_str ==
    [m \in WifiModes |->
        CASE m = "INFRASTRUCTURE" -> "infrastructure"
          [] m = "ADHOC" -> "adhoc"
          [] m = "OTHER" -> NULL]

\* the six string members of modem_params, in struct order
ModemFields == <<"apn", "device_id", "network_id", "pin", "sim_id", "sim_operator_id">>

\* the datalist s.nm.passthrough holding the first n keys; NULL when n = 0
Passthrough(n) == [k \in {KeyNames[i] : i \in 1..n} |-> ValNames[CHOOSE i \in 1..n : KeyNames[i] = k]]

\* NetplanBackendSettings (the nm member)
BackendSettings(uuid, name, n) ==
    [uuid |-> uuid, name |-> name, passthrough |-> Passthrough(n)]

NoSettings == BackendSettings(NULL, NULL, 0)

\* the settings records of a definition (uuid0, conn0) or an access point
\* (uuid1, conn1)
SettingsOf(uuid, name) ==
    {BackendSettings(u, n, k) : u \in {NULL, uuid}, n \in {NULL, name}, k \in 0..MaxKeys}

\* NetplanWifiAccessPoint
AccessPoint(ssid, hidden, mode, bs) ==
    [ssid |-> ssid, hidden |-> hidden, mode |-> mode, backend_settings |-> bs]

\* modem_params with the string members in `present` set
ModemParams(auto, present) ==
    [auto_config |-> auto,
     str |-> [f \in {ModemFields[i] : i \in 1..6} |-> IF f \in present THEN "m-" \o f ELSE NULL]]

NoModem == ModemParams(FALSE, {})

ModemSets ==
    {p \in SUBSET {ModemFields[i] : i \in 1..6} : Cardinality(p) <= MaxModem}

\* NetplanNetDefinition, the members write_netplan_conf reads
NetDef(type, has_match, oname, wol, modem, bs, aps) ==
    [id |-> "id0", type |-> type, backend |-> "NM",
     has_match |-> has_match, original_name |-> oname,
     wake_on_lan |-> wol, modem_params |-> modem,
     backend_settings |-> bs, access_points |-> aps]


(* ---------------------------------------------------------------- inputs *)
\* The renders explored are those of every definition with at most MaxSet
\* optional members set, counted over the whole definition (and rootdir),
\* and those of a few definitions with every member set.
Flag(b) == IF b THEN 1 ELSE 0

SettingsWeight(bs) ==
    Flag(bs.uuid # NULL) + Flag(bs.name # NULL) + Cardinality(DOMAIN bs.passthrough)

APWeight(a) ==
    1 + Flag(a.hidden) + Flag(a.mode # "INFRASTRUCTURE") + SettingsWeight(a.backend_settings)

\* the access points a definition can hold under a budget, without their SSID
APKinds(budget) ==
    {a \in {AccessPoint(NULL, h, m, bs) : h \in BOOLEAN, m \in WifiModes, bs \in SettingsOf("uuid1", "conn1")} :
        APWeight(a) <= budget}

RECURSIVE APLists(_, _)
APLists(n, budget) ==
    IF n = 0
    THEN {<< >>}
    ELSE {<< >>} \cup
         UNION {{<<a>> \o r : r \in APLists(n - 1, budget - APWeight(a))} : a \in APKinds(budget)}

\* def->access_points: a hash table from SSID to access point
APTable(l) ==
    [x \in {SsidNames[i] : i \in 1..Len(l)} |->
        LET i == CHOOSE j \in 1..Len(l) : SsidNames[j] = x
        IN  AccessPoint(x, l[i].hidden, l[i].mode, l[i].backend_settings)]

\* match, wake-on-lan and modem members
TopParts ==
    {[has_match |-> m[1], original_name |-> m[2], wake_on_lan |-> w, modem_params |-> ModemParams(a, p)] :
        m \in {<<FALSE, NULL>>, <<TRUE, NULL>>, <<TRUE, "eth*">>},
        w \in BOOLEAN, a \in BOOLEAN, p \in ModemSets}

TopWeight(t) ==
    Flag(t.has_match) + Flag(t.original_name # NULL) + Flag(t.wake_on_lan)
    + Flag(t.modem_params.auto_config)
    + Cardinality({f \in DOMAIN t.modem_params.str : t.modem_params.str[f] # NULL})

\* rootdir argument: NULL or a directory
RootDirs == {NULL, "/tmp/root"}

\* the types whose definitions carry access points
HasAPs(type) == type \in {"WIFI", "OTHER"}

RECURSIVE ListWeight(_)
ListWeight(l) == IF l = << >> THEN 0 ELSE APWeight(Head(l)) + ListWeight(Tail(l))

\* the (definition, rootdir) pairs with at most MaxSet optional members set
SmallInputs ==
    UNION {UNION {UNION {
        {[def |-> NetDef(type, t.has_match, t.original_name, t.wake_on_lan, t.modem_params, bs, APTable(l)),
          rootdir |-> r] :
            type \in {ty \in DefTypes : l = << >> \/ HasAPs(ty)},
            r \in {rd \in RootDirs :
                     TopWeight(t) + SettingsWeight(bs) + ListWeight(l) + Flag(rd # NULL) <= MaxSet}}
        : l \in APLists(MaxAPs, MaxSet - TopWeight(t) - SettingsWeight(bs))}
        : bs \in {b \in SettingsOf("uuid0", "conn0") : SettingsWeight(b) <= MaxSet - TopWeight(t)}}
        : t \in {x \in TopParts : TopWeight(x) <= MaxSet}}

\* definitions with every member set: a match by name, wake-on-lan, all modem
\* parameters, uuid, name and two passthrough entries, a hidden access point of
\* unsupported mode with its own uuid and name and a plain ad-hoc one
RichInputs ==
    {[def |-> NetDef(type, TRUE, "eth*", TRUE,
                     ModemParams(TRUE, {ModemFields[i] : i \in 1..6}),
                     BackendSettings("uuid0", "conn0", 2),
                     IF HasAPs(type)
                     THEN APTable(<<AccessPoint(NULL, TRUE, "OTHER", BackendSettings("uuid1", "conn1", 0)),
                                    AccessPoint(NULL, FALSE, "ADHOC", NoSettings)>>)
                     ELSE << >>),
      rootdir |-> "/tmp/root"] : type \in DefTypes}

\* the (definition, rootdir) pairs a render is started with
Inputs == SmallInputs \cup RichInputs

(* ----------------------------------------------------------- yaml events *)
Event(t, style, v) == [t |-> t, style |-> style, v |-> v]
Plain(v) == Event("scalar", "plain", v)
Quoted(v) == Event("scalar", "quoted", v)
MapStart == Event("mapping-start", "", "")
MapEnd == Event("mapping-end", "", "")
StreamStart == Event("stream-start", "", "")
StreamEnd == Event("stream-end", "", "")
DocStart == Event("document-start", "", "")
DocEnd == Event("document-end", "", "")

(* ----------------------------------------------------------------- state *)
VARIABLES
    def,       \* the NetplanNetDefinition being rendered
    rootdir,   \* the rootdir argument
    path,      \* the computed output path
    output,    \* FILE *output: "unset", "open", "closed" or NULL
    emitter,   \* yaml_emitter_t: "uninit", "live" or "deleted"
    nclose,    \* number of fclose(output) calls
    ret,       \* what write_netplan_conf handed back: "none" while running
    pc,        \* source line of the next statement
    sub,       \* position inside the macro of that line
    stack,     \* return addresses of the active calls
    rv,        \* value of the last gboolean return
    events,    \* events the emitter accepted, in order
    nfail,     \* number of yaml_emitter_emit calls that returned 0
    late,      \* an emit was attempted after an earlier one had failed
    iter,      \* GHashTableIter: SSIDs not yet visited
    ap,        \* the SSID of the access point being written
    s,         \* write_backend_settings' argument
    ptiter,    \* g_datalist_foreach: keys not yet visited
    key,       \* _passthrough_handler's key
    ptfail,    \* a handler write failed in the current write_backend_settings call
    warnings,  \* SSIDs g_warning was called for, in order
    file,      \* the events in the file at `path`
    first,     \* the file as an earlier render of the definition left it
    again,     \* the definition has been rendered before
    order,     \* the order in which each table hands out its entries
    netdef_id, \* _write_netplan_conf's argument: the id to look up
    read_path, \* the definitions in the file at read_path, by id
    netdefs,   \* the parser's registry of definitions, by id
    ht,        \* the table netplan_finish_parse returned
    calls      \* the calls _write_netplan_conf has made, in order

vars == <<def, rootdir, path, output, emitter, nclose, ret, pc, sub, stack, rv,
          events, nfail, late, iter, ap, s, ptiter, key, ptfail, warnings,
          file, first, again, order, netdef_id, read_path, netdefs, ht, calls>>

entryVars == <<netdef_id, read_path, netdefs, ht, calls>>
\* what write_netplan_conf and its callees never assign: its arguments and
\* the state of its caller
inVars == <<def, rootdir, entryVars>>
fileVars == <<path, output, emitter, nclose, ret>>
emitVars == <<events, nfail, late>>
callVars == <<stack, rv>>
locVars == <<iter, ap, s, ptiter, key, ptfail, warnings>>
runVars == <<file, first, again, order>>
\* everything an emitting statement leaves alone
others == <<inVars, fileVars, callVars, locVars, runVars>>

(* ------------------------------------------------------ iteration order *)
\* A GHashTable and a GData list hand out their entries in an order the
\* library decides, the same at every iteration of an unmodified table.  The
\* order is recorded per table, "aps" for def->access_points, "def" for the
\* definition's passthrough list and the SSID for an access point's.
Tables == {"aps", "def"} \cup {SsidNames[i] : i \in 1..Len(SsidNames)}

\* the entries that can come next from table o, `rest` of `all` being left
NextEntries(o, rest, all) ==
    IF Len(order[o]) > Cardinality(all \ rest)
    THEN {order[o][Cardinality(all \ rest) + 1]}
    ELSE rest

\* entry k has come next from table o
Visit(o, k, rest, all) ==
    order' = IF Len(order[o]) > Cardinality(all \ rest)
             THEN order
             ELSE [order EXCEPT ![o] = Append(@, k)]

\* the state at the entry of write_netplan_conf
Locals ==
    /\ path = << >>
    /\ output = "unset"
    /\ emitter = "uninit"
    /\ nclose = 0
    /\ ret = "none"
    /\ sub = 0
    /\ stack = << >>
    /\ rv = TRUE
    /\ events = << >>
    /\ nfail = 0
    /\ late = FALSE
    /\ iter = {}
    /\ ap = NULL
    /\ s = NoSettings
    /\ ptiter = {}
    /\ key = NULL
    /\ ptfail = FALSE
    /\ warnings = << >>
    /\ file = << >>
    /\ first = << >>
    /\ again = FALSE
    /\ order = [o \in Tables |-> << >>]

\* write_netplan_conf called with a definition; no registry is involved
Init ==
    /\ \E in \in Inputs : def = in.def /\ rootdir = in.rootdir
    /\ pc = "L126"
    /\ Locals
    /\ netdef_id = NULL
    /\ read_path = << >>
    /\ netdefs = << >>
    /\ ht = << >>
    /\ calls = << >>

(* -------------------------------------------------- control-flow helpers *)
Goto(l) == pc' = l /\ sub' = 0

\* a function call: push the return address, jump to the first line
Call(target, retpc, retsub) ==
    /\ pc' = target
    /\ sub' = 0
    /\ stack' = <<[pc |-> retpc, sub |-> retsub]>> \o stack

\* `return v;` of a gboolean function
Return(v) ==
    /\ pc' = Head(stack).pc
    /\ sub' = Head(stack).sub
    /\ stack' = Tail(stack)
    /\ rv' = v

(* ------------------------------------------------------- document writer *)
\* if (!yaml_emitter_emit(emitter, event)) goto error;
yaml_emitter_emit(ev, okpc, oksub, errpc) ==
    /\ late' = (late \/ nfail > 0)
    /\ \/ /\ events' = Append(events, ev)
          /\ nfail' = nfail
          /\ pc' = okpc
          /\ sub' = oksub
       \/ /\ events' = events
          /\ nfail' = nfail + 1
          /\ pc' = errpc
          /\ sub' = 0

YAML_SCALAR_PLAIN(v, next, err) == yaml_emitter_emit(Plain(v), next, 0, err)
YAML_SCALAR_QUOTED(v, next, err) == yaml_emitter_emit(Quoted(v), next, 0, err)
YAML_MAPPING_OPEN(next, err) == yaml_emitter_emit(MapStart, next, 0, err)
YAML_MAPPING_CLOSE(next, err) == yaml_emitter_emit(MapEnd, next, 0, err)

\* if (value) { key as plain scalar; value as quoted scalar }
YAML_STRING(k, v, next, err) ==
    IF v = NULL
    THEN Goto(next) /\ UNCHANGED emitVars
    ELSE IF sub = 0
         THEN yaml_emitter_emit(Plain(k), pc, 1, err)
         ELSE yaml_emitter_emit(Quoted(v), next, 0, err)

\* if (value) { key as plain scalar; value as plain scalar }
YAML_STRING_PLAIN(k, v, next, err) ==
    IF v = NULL
    THEN Goto(next) /\ UNCHANGED emitVars
    ELSE IF sub = 0
         THEN yaml_emitter_emit(Plain(k), pc, 1, err)
         ELSE yaml_emitter_emit(Plain(v), next, 0, err)

(* ---------------------------------------------------- write_netplan_conf *)
\* the file name chosen from the top-level UUID or the id
FileName(d) ==
    IF d.backend_settings.uuid # NULL
    THEN <<"90-NM-", d.backend_settings.uuid, ".yaml">>
    ELSE <<"10-netplan-", d.id, ".yaml">>

\* a string argument as path text: the separators and the runs between them
Tokens(str) ==
    CASE str = "" -> << >>
      [] str = "/tmp/root" -> <<"/", "tmp", "/", "root">>
      [] OTHER -> <<str>>

RECURSIVE StripLeading(_)
StripLeading(e) == IF e # << >> /\ Head(e) = "/" THEN StripLeading(Tail(e)) ELSE e

RECURSIVE StripTrailing(_)
StripTrailing(e) ==
    IF e # << >> /\ e[Len(e)] = "/" THEN StripTrailing(SubSeq(e, 1, Len(e) - 1)) ELSE e

\* the elements joined by one separator each, their own leading and trailing
\* separators removed, elements left empty skipped
RECURSIVE JoinElements(_, _)
JoinElements(elems, lead) ==
    IF elems = << >>
    THEN << >>
    ELSE LET e == StripTrailing(StripLeading(Head(elems)))
         IN  IF e = << >>
             THEN JoinElements(Tail(elems), lead)
             ELSE (IF lead THEN << >> ELSE <<"/">>) \o e \o JoinElements(Tail(elems), FALSE)

\* g_build_path("/", ...): empty elements are ignored; the result starts with
\* the leading separators of the first element that is not empty
g_build_path(elems) ==
    LET ne == SelectSeq(elems, LAMBDA e : e # << >>)
    IN  IF ne = << >>
        THEN << >>
        ELSE SubSeq(ne[1], 1, Len(ne[1]) - Len(StripLeading(ne[1]))) \o JoinElements(ne, TRUE)

\* g_build_path("/", rootdir ?: "", "etc", "netplan", filename, NULL)
BuildPath(root, filename) ==
    g_build_path(<<Tokens(IF root # NULL THEN root ELSE ""), <<"etc">>, <<"netplan">>, filename>>)

L126 ==
    /\ pc = "L126"
    /\ path' = BuildPath(rootdir, FileName(def))
    /\ Goto("L137")
    /\ UNCHANGED <<inVars, runVars, output, emitter, nclose, ret, emitVars, callVars, locVars>>

\* the file opened for appending: what it holds stays
fopen_wb_m(content) == content

\* what a file opened with mode "wb" holds: it is truncated to zero length
fopen_wb(content) == << >>

\* FILE *output = fopen(path, "wb"); the result is not tested
L137 ==
    /\ pc = "L137"
    /\ output' \in {"open", NULL}
    /\ file' = IF output' = "open" THEN fopen_wb(file) ELSE file
    /\ Goto("L139")
    /\ UNCHANGED <<inVars, first, again, order, path, emitter, nclose, ret, emitVars, callVars, locVars>>

\* YAML_OUT_START: initialise the emitter on `output`, start stream and
\* document, open the root mapping.  Handing a NULL FILE to the emitter is
\* undefined: the process may stop there or carry on with the NULL handle.
L139 ==
    /\ pc = "L139"
    /\ \/ /\ sub = 0
          /\ output = NULL
          /\ Goto("crashed")
          /\ emitter' = "live"
          /\ UNCHANGED <<inVars, runVars, path, output, nclose, ret, emitVars, callVars, locVars>>
       \/ /\ sub = 0
          /\ emitter' = "live"
          /\ yaml_emitter_emit(StreamStart, "L139", 1, "L187")
          /\ UNCHANGED <<inVars, runVars, path, output, nclose, ret, callVars, locVars>>
       \/ /\ sub = 1
          /\ yaml_emitter_emit(DocStart, "L139", 2, "L187")
          /\ UNCHANGED others
       \/ /\ sub = 2
          /\ YAML_MAPPING_OPEN("L141", "L187")
          /\ UNCHANGED others

L141 == pc = "L141" /\ YAML_SCALAR_PLAIN("network", "L142", "L187") /\ UNCHANGED others

L142 == pc = "L142" /\ YAML_MAPPING_OPEN("L144", "L187") /\ UNCHANGED others

L144 == pc = "L144" /\ YAML_STRING_PLAIN("version", "2", "L145", "L187") /\ UNCHANGED others

L145 ==
    /\ pc = "L145"
    /\ YAML_SCALAR_PLAIN(netplan_def_type_to_str[def.type], "L146", "L187")
    /\ UNCHANGED others

L146 == pc = "L146" /\ YAML_MAPPING_OPEN("L147", "L187") /\ UNCHANGED others

L147 == pc = "L147" /\ YAML_SCALAR_PLAIN(def.id, "L148", "L187") /\ UNCHANGED others

L148 == pc = "L148" /\ YAML_MAPPING_OPEN("L149", "L187") /\ UNCHANGED others

L149 ==
    /\ pc = "L149"
    /\ YAML_STRING_PLAIN("renderer", netplan_backend_to_name[def.backend], "L151", "L187")
    /\ UNCHANGED others

\* the jump of line 151 left out: every type runs the conditional sections
AfterRenderer_m(d) == "L154"

\* where `if (def->type == NETPLAN_DEF_TYPE_OTHER) goto only_passthrough;` leads
AfterRenderer(d) == IF d.type = "OTHER" THEN "L174" ELSE "L154"

L151 ==
    /\ pc = "L151"
    /\ Goto(AfterRenderer(def))
    /\ UNCHANGED <<inVars, runVars, fileVars, emitVars, callVars, locVars>>

\* if (def->has_match) write_match(...);   the gboolean result is dropped
L154 ==
    /\ pc = "L154"
    /\ IF def.has_match
       THEN Call("L27", "L158", 0) /\ UNCHANGED rv
       ELSE Goto("L158") /\ UNCHANGED callVars
    /\ UNCHANGED <<inVars, runVars, fileVars, emitVars, locVars>>

\* the test of the flag left out: the pair is written whatever the flag
FlagValue_m(b) == "true"

\* the value YAML_STRING_PLAIN is given for a boolean member
FlagValue(b) == IF b THEN "true" ELSE NULL

L158 ==
    /\ pc = "L158"
    /\ YAML_STRING_PLAIN("wakeonlan", FlagValue(def.wake_on_lan), "L162", "L187")
    /\ UNCHANGED others

L162 ==
    /\ pc = "L162"
    /\ YAML_STRING_PLAIN("auto-config", FlagValue(def.modem_params.auto_config), "L164", "L187")
    /\ UNCHANGED others

L164 ==
    /\ pc = "L164"
    /\ YAML_STRING("apn", def.modem_params.str["apn"], "L165", "L187")
    /\ UNCHANGED others

L165 ==
    /\ pc = "L165"
    /\ YAML_STRING("device-id", def.modem_params.str["device_id"], "L166", "L187")
    /\ UNCHANGED others

L166 ==
    /\ pc = "L166"
    /\ YAML_STRING("network-id", def.modem_params.str["network_id"], "L167", "L187")
    /\ UNCHANGED others

L167 ==
    /\ pc = "L167"
    /\ YAML_STRING("pin", def.modem_params.str["pin"], "L168", "L187")
    /\ UNCHANGED others

L168 ==
    /\ pc = "L168"
    /\ YAML_STRING("sim-id", def.modem_params.str["sim_id"], "L169", "L187")
    /\ UNCHANGED others

L169 ==
    /\ pc = "L169"
    /\ YAML_STRING("sim-operator-id", def.modem_params.str["sim_operator_id"], "L171", "L187")
    /\ UNCHANGED others

\* if (type == WIFI) if (!write_access_points(...)) goto error;
L171 ==
    /\ pc = "L171"
    /\ \/ /\ sub = 0
          /\ IF def.type = "WIFI"
             THEN Call("L84", "L171", 1) /\ UNCHANGED rv
             ELSE Goto("L174") /\ UNCHANGED callVars
       \/ /\ sub = 1
          /\ Goto(IF rv THEN "L174" ELSE "L187")
          /\ UNCHANGED callVars
    /\ UNCHANGED <<inVars, runVars, fileVars, emitVars, locVars>>

\* only_passthrough: if (!write_backend_settings(..., def->backend_settings)) goto error;
L174 ==
    /\ pc = "L174"
    /\ \/ /\ sub = 0
          /\ s' = def.backend_settings
          /\ ptfail' = FALSE
          /\ Call("L52", "L174", 1)
          /\ UNCHANGED rv
       \/ /\ sub = 1
          /\ Goto(IF rv THEN "L177" ELSE "L187")
          /\ UNCHANGED <<callVars, s, ptfail>>
    /\ UNCHANGED <<inVars, runVars, fileVars, emitVars, iter, ap, ptiter, key, warnings>>

L177 == pc = "L177" /\ YAML_MAPPING_CLOSE("L178", "L187") /\ UNCHANGED others

L178 == pc = "L178" /\ YAML_MAPPING_CLOSE("L179", "L187") /\ UNCHANGED others

L179 == pc = "L179" /\ YAML_MAPPING_CLOSE("L182", "L187") /\ UNCHANGED others

\* YAML_OUT_STOP: close the root mapping, end the document (which flushes the
\* buffered events to `output`), end the stream, delete the emitter.  A flush to a
\* NULL FILE is undefined: the process stops or the write is reported failed.
L182 ==
    /\ pc = "L182"
    /\ \/ /\ sub = 0
          /\ yaml_emitter_emit(MapEnd, "L182", 1, "L187")
          /\ UNCHANGED others
       \/ /\ sub = 1
          /\ output # NULL
          /\ yaml_emitter_emit(DocEnd, "L182", 2, "L187")
          /\ file' = IF pc' = "L182" THEN file \o events' ELSE file
          /\ UNCHANGED <<inVars, fileVars, callVars, locVars, first, again, order>>
       \/ /\ sub = 1
          /\ output = NULL
          /\ late' = (late \/ nfail > 0)
          /\ \/ Goto("crashed") /\ UNCHANGED <<events, nfail>>
             \/ Goto("L187") /\ nfail' = nfail + 1 /\ UNCHANGED events
          /\ UNCHANGED others
       \/ /\ sub = 2
          /\ yaml_emitter_emit(StreamEnd, "L183", 0, "L187")
          /\ emitter' = IF pc' = "L183" THEN "deleted" ELSE emitter
          /\ file' = IF pc' = "L183" THEN Append(file, StreamEnd) ELSE file
          /\ UNCHANGED <<inVars, first, again, order, path, output, nclose, ret, callVars, locVars>>

\* fclose(output): on a NULL FILE undefined, the process stops or goes on
fclose(next) ==
    /\ nclose' = nclose + 1
    /\ \/ output # NULL /\ output' = "closed" /\ Goto(next)
       \/ output = NULL /\ output' = output /\ Goto(next)
       \/ output = NULL /\ output' = output /\ Goto("crashed")

\* fclose(output); return;
L183 ==
    /\ pc = "L183"
    /\ fclose("done")
    /\ ret' = IF pc' = "done" THEN "void" ELSE ret
    /\ UNCHANGED <<inVars, runVars, path, emitter, emitVars, callVars, locVars>>

\* error: yaml_emitter_delete(emitter); fclose(output);
L187 ==
    /\ pc = "L187"
    /\ emitter' = "deleted"
    /\ fclose("done")
    /\ ret' = IF pc' = "done" THEN "void" ELSE ret
    /\ UNCHANGED <<inVars, runVars, path, emitVars, callVars, locVars>>

(* ----------------------------------------------------------- write_match *)
L27 == pc = "L27" /\ YAML_SCALAR_PLAIN("match", "L28", "L32") /\ UNCHANGED others

L28 == pc = "L28" /\ YAML_MAPPING_OPEN("L29", "L32") /\ UNCHANGED others

L29 ==
    /\ pc = "L29"
    /\ YAML_STRING("name", def.original_name, "L30", "L32")
    /\ UNCHANGED others

L30 == pc = "L30" /\ YAML_MAPPING_CLOSE("L31", "L32") /\ UNCHANGED others

\* return TRUE;
L31 ==
    /\ pc = "L31"
    /\ Return(TRUE)
    /\ UNCHANGED <<inVars, runVars, fileVars, emitVars, locVars>>

\* error: return FALSE;
L32 ==
    /\ pc = "L32"
    /\ Return(FALSE)
    /\ UNCHANGED <<inVars, runVars, fileVars, emitVars, locVars>>

(* -------------------------------------------------- _passthrough_handler *)
\* the value written plain, like the key
PassthroughValue_m(v) == Plain(v)

\* the event written for a passthrough value
PassthroughValue(v) == Quoted(v)

L45 ==
    /\ pc = "L45"
    /\ YAML_SCALAR_PLAIN(key, "L46", "L47")
    /\ ptfail' = (ptfail \/ pc' = "L47")
    /\ UNCHANGED <<inVars, runVars, fileVars, callVars, iter, ap, s, ptiter, key, warnings>>

L46 ==
    /\ pc = "L46"
    /\ late' = (late \/ nfail > 0)
    /\ \/ events' = Append(events, PassthroughValue(s.passthrough[key])) /\ UNCHANGED <<nfail, ptfail>>
       \/ events' = events /\ nfail' = nfail + 1 /\ ptfail' = TRUE
    /\ Goto("L47")
    /\ UNCHANGED <<inVars, runVars, fileVars, callVars, iter, ap, s, ptiter, key, warnings>>

\* error: return;   the handler is void, the iteration goes on
L47 ==
    /\ pc = "L47"
    /\ pc' = Head(stack).pc
    /\ sub' = Head(stack).sub
    /\ stack' = Tail(stack)
    /\ UNCHANGED <<inVars, runVars, fileVars, emitVars, rv, locVars>>

(* ------------------------------------------------ write_backend_settings *)
\* the test of line 52 always taken
HasSettings_m(bs) == TRUE

\* if (s.nm.uuid || s.nm.name || s.nm.passthrough)
HasSettings(bs) == bs.uuid # NULL \/ bs.name # NULL \/ DOMAIN bs.passthrough # {}

L52 ==
    /\ pc = "L52"
    /\ Goto(IF HasSettings(s) THEN "L53" ELSE "L74")
    /\ UNCHANGED <<inVars, runVars, fileVars, emitVars, callVars, locVars>>

L53 == pc = "L53" /\ YAML_SCALAR_PLAIN("networkmanager", "L54", "L75") /\ UNCHANGED others

L54 == pc = "L54" /\ YAML_MAPPING_OPEN("L55", "L75") /\ UNCHANGED others

\* if (s.nm.uuid) { "uuid" and the uuid, both plain }
L55 ==
    /\ pc = "L55"
    /\ YAML_STRING_PLAIN("uuid", s.uuid, "L59", "L75")
    /\ UNCHANGED others

\* the name written as a plain scalar, like the uuid
L59_m ==
    /\ pc = "L59"
    /\ YAML_STRING_PLAIN("name", s.name, "L63", "L75")
    /\ UNCHANGED others

\* if (s.nm.name) { "name" plain, the name quoted }
L59 ==
    /\ pc = "L59"
    /\ YAML_STRING("name", s.name, "L63", "L75")
    /\ UNCHANGED others

\* if (s.nm.passthrough) { "passthrough" ...
L63 ==
    /\ pc = "L63"
    /\ IF DOMAIN s.passthrough # {}
       THEN YAML_SCALAR_PLAIN("passthrough", "L65", "L75")
       ELSE Goto("L72") /\ UNCHANGED emitVars
    /\ UNCHANGED others

L65 ==
    /\ pc = "L65"
    /\ YAML_MAPPING_OPEN("L69", "L75")
    /\ ptiter' = DOMAIN s.passthrough
    /\ UNCHANGED <<inVars, runVars, fileVars, callVars, iter, ap, s, key, ptfail, warnings>>

\* the table s.nm.passthrough belongs to: an access point's inside the call
\* of line 104, the definition's otherwise
Owner == IF \E n \in 1..Len(stack) : stack[n].pc = "L104" THEN ap ELSE "def"

\* g_datalist_foreach(&s.nm.passthrough, _passthrough_handler, &d): the
\* handler runs once per entry, in an order the datalist decides
L69 ==
    /\ pc = "L69"
    /\ IF ptiter = {}
       THEN Goto("L70") /\ UNCHANGED <<callVars, ptiter, key>>
       ELSE \E k \in NextEntries(Owner, ptiter, DOMAIN s.passthrough) :
                /\ key' = k
                /\ ptiter' = ptiter \ {k}
                /\ Visit(Owner, k, ptiter, DOMAIN s.passthrough)
                /\ Call("L45", "L69", 0)
                /\ UNCHANGED rv
    /\ ptiter = {} => UNCHANGED order
    /\ UNCHANGED <<inVars, file, first, again, fileVars, emitVars, iter, ap, s, ptfail, warnings>>

L70 == pc = "L70" /\ YAML_MAPPING_CLOSE("L72", "L75") /\ UNCHANGED others

L72 == pc = "L72" /\ YAML_MAPPING_CLOSE("L74", "L75") /\ UNCHANGED others

\* return TRUE;
L74 ==
    /\ pc = "L74"
    /\ Return(TRUE)
    /\ UNCHANGED <<inVars, runVars, fileVars, emitVars, locVars>>

\* error: return FALSE;
L75 ==
    /\ pc = "L75"
    /\ Return(FALSE)
    /\ UNCHANGED <<inVars, runVars, fileVars, emitVars, locVars>>

(* --------------------------------------------------- write_access_points *)
L84 == pc = "L84" /\ YAML_SCALAR_PLAIN("access-points", "L85", "L109") /\ UNCHANGED others

L85 == pc = "L85" /\ YAML_MAPPING_OPEN("L86", "L109") /\ UNCHANGED others

\* g_hash_table_iter_init(&iter, def->access_points);
L86 ==
    /\ pc = "L86"
    /\ iter' = DOMAIN def.access_points
    /\ Goto("L87")
    /\ UNCHANGED <<inVars, runVars, fileVars, emitVars, callVars, ap, s, ptiter, key, ptfail, warnings>>

\* while (g_hash_table_iter_next(&iter, &key, &value)) { ap = value;
L87 ==
    /\ pc = "L87"
    /\ IF iter = {}
       THEN Goto("L107") /\ UNCHANGED <<iter, ap>>
       ELSE \E a \in NextEntries("aps", iter, DOMAIN def.access_points) :
                /\ ap' = a
                /\ iter' = iter \ {a}
                /\ Visit("aps", a, iter, DOMAIN def.access_points)
                /\ Goto("L89")
    /\ iter = {} => UNCHANGED order
    /\ UNCHANGED <<inVars, file, first, again, fileVars, emitVars, callVars, s, ptiter, key, ptfail, warnings>>

L89 ==
    /\ pc = "L89"
    /\ YAML_SCALAR_QUOTED(def.access_points[ap].ssid, "L90", "L109")
    /\ UNCHANGED others

L90 == pc = "L90" /\ YAML_MAPPING_OPEN("L91", "L109") /\ UNCHANGED others

\* the pair written for every access point, with the flag as its value
HiddenValue_m(a) == IF a.hidden THEN "true" ELSE "false"

\* the value of the `hidden` pair of access point a; NULL: no pair
HiddenValue(a) == IF a.hidden THEN "true" ELSE NULL

\* if (ap->hidden) { "hidden": "true" }
L91 ==
    /\ pc = "L91"
    /\ YAML_STRING_PLAIN("hidden", HiddenValue(def.access_points[ap]), "L95", "L109")
    /\ UNCHANGED others

L95 == pc = "L95" /\ YAML_SCALAR_PLAIN("mode", "L96", "L109") /\ UNCHANGED others

\* the fallback branch never taken: the table is indexed with every mode
ModeSupported_m(m) == TRUE

\* if (ap->mode != NETPLAN_WIFI_MODE_OTHER)
ModeSupported(m) == m # "OTHER"

L96 ==
    /\ pc = "L96"
    /\ IF ModeSupported(def.access_points[ap].mode)
       THEN YAML_SCALAR_PLAIN(netplan_wifi_mode_to_str[def.access_points[ap].mode], "L104", "L109")
       ELSE Goto("L100") /\ UNCHANGED emitVars
    /\ UNCHANGED others

\* g_warning("... unsupported AP mode, falling back to 'infrastructure'", def->id, ap->ssid);
L100 ==
    /\ pc = "L100"
    /\ warnings' = Append(warnings, def.access_points[ap].ssid)
    /\ Goto("L101")
    /\ UNCHANGED <<inVars, runVars, fileVars, emitVars, callVars, iter, ap, s, ptiter, key, ptfail>>

L101 == pc = "L101" /\ YAML_SCALAR_PLAIN("infrastructure", "L104", "L109") /\ UNCHANGED others

\* if (!write_backend_settings(event, emitter, ap->backend_settings)) goto error;
L104 ==
    /\ pc = "L104"
    /\ \/ /\ sub = 0
          /\ s' = def.access_points[ap].backend_settings
          /\ ptfail' = FALSE
          /\ Call("L52", "L104", 1)
          /\ UNCHANGED rv
       \/ /\ sub = 1
          /\ Goto(IF rv THEN "L105" ELSE "L109")
          /\ UNCHANGED <<callVars, s, ptfail>>
    /\ UNCHANGED <<inVars, runVars, fileVars, emitVars, iter, ap, ptiter, key, warnings>>

\* the mapping of an access point left open
L105_m == pc = "L105" /\ Goto("L87") /\ UNCHANGED emitVars /\ UNCHANGED others

L105 == pc = "L105" /\ YAML_MAPPING_CLOSE("L87", "L109") /\ UNCHANGED others

L107 == pc = "L107" /\ YAML_MAPPING_CLOSE("L108", "L109") /\ UNCHANGED others

\* return TRUE;
L108 ==
    /\ pc = "L108"
    /\ Return(TRUE)
    /\ UNCHANGED <<inVars, runVars, fileVars, emitVars, locVars>>

\* error: return FALSE;
L109 ==
    /\ pc = "L109"
    /\ Return(FALSE)
    /\ UNCHANGED <<inVars, runVars, fileVars, emitVars, locVars>>

(* --------------------------------------------------------- specification *)
write_netplan_conf ==
    \/ L126 \/ L137 \/ L139 \/ L141 \/ L142 \/ L144 \/ L145 \/ L146 \/ L147
    \/ L148 \/ L149 \/ L151 \/ L154 \/ L158 \/ L162 \/ L164 \/ L165 \/ L166
    \/ L167 \/ L168 \/ L169 \/ L171 \/ L174 \/ L177 \/ L178 \/ L179 \/ L182
    \/ L183 \/ L187

write_match == L27 \/ L28 \/ L29 \/ L30 \/ L31 \/ L32

_passthrough_handler == L45 \/ L46 \/ L47

write_backend_settings ==
    \/ L52 \/ L53 \/ L54 \/ L55 \/ L59 \/ L63 \/ L65 \/ L69 \/ L70 \/ L72
    \/ L74 \/ L75

write_access_points ==
    \/ L84 \/ L85 \/ L86 \/ L87 \/ L89 \/ L90 \/ L91 \/ L95 \/ L96 \/ L100
    \/ L101 \/ L104 \/ L105 \/ L107 \/ L108 \/ L109

Next ==
    \/ write_netplan_conf
    \/ write_match
    \/ _passthrough_handler
    \/ write_backend_settings
    \/ write_access_points

Spec == Init /\ [][Next]_vars

\* write_netplan_conf called once more with the same definition and rootdir,
\* after a call in which no open and no write failed: the locals start afresh,
\* the file at the path and the tables of the definition are as they were left
RenderAgain ==
    /\ pc = "done"
    /\ ~again
    /\ nfail = 0
    /\ output = "closed"
    /\ again' = TRUE
    /\ first' = file
    /\ path' = << >>
    /\ output' = "unset"
    /\ emitter' = "uninit"
    /\ nclose' = 0
    /\ ret' = "none"
    /\ pc' = "L126"
    /\ sub' = 0
    /\ stack' = << >>
    /\ rv' = TRUE
    /\ events' = << >>
    /\ nfail' = 0
    /\ late' = FALSE
    /\ iter' = {}
    /\ ap' = NULL
    /\ s' = NoSettings
    /\ ptiter' = {}
    /\ key' = NULL
    /\ ptfail' = FALSE
    /\ warnings' = << >>
    /\ UNCHANGED <<inVars, file, order>>

NextTwice == Next \/ RenderAgain

\* the renders of a definition followed by a second render of it
SpecTwice == Init /\ [][NextTwice]_vars

(* -------------------------------------------------- _write_netplan_conf *)
\* a NULL NetplanNetDefinition pointer
NullDef == [id |-> NULL]

\* the ids _write_netplan_conf is called with: the one of the definitions
\* rendered and one no definition has
NetdefIds == {"id0", "id1"}

\* the files at read_path: one definition, or none
ReadPaths == {[i \in {in.def.id} |-> in.def] : in \in Inputs} \cup {<< >>}

\* _write_netplan_conf(netdef_id, read_path, rootdir) is entered
InitEntry ==
    /\ netdef_id \in NetdefIds
    /\ read_path \in ReadPaths
    /\ rootdir \in RootDirs
    /\ def = NullDef
    /\ ht = << >>
    /\ netdefs = << >>
    /\ calls = << >>
    /\ pc = "L206"
    /\ Locals

\* netplan_parse_yaml(read_path, NULL): the definitions of the file are
\* entered in the registry
L206 ==
    /\ pc = "L206"
    /\ netdefs' = read_path
    /\ calls' = Append(calls, "parse")
    /\ Goto("L207")
    /\ UNCHANGED <<def, rootdir, netdef_id, read_path, ht, fileVars, emitVars, callVars, locVars, runVars>>

\* ht = netplan_finish_parse(NULL);
L207 ==
    /\ pc = "L207"
    /\ ht' = netdefs
    /\ calls' = Append(calls, "finalize")
    /\ Goto("L208")
    /\ UNCHANGED <<def, rootdir, netdef_id, read_path, netdefs, fileVars, emitVars, callVars, locVars, runVars>>

\* def = g_hash_table_lookup(ht, netdef_id);   NULL when the id is not there
L208 ==
    /\ pc = "L208"
    /\ def' = IF netdef_id \in DOMAIN ht THEN ht[netdef_id] ELSE NullDef
    /\ calls' = Append(calls, "lookup")
    /\ Goto("L209")
    /\ UNCHANGED <<rootdir, netdef_id, read_path, netdefs, ht, fileVars, emitVars, callVars, locVars, runVars>>

\* write_netplan_conf(def, rootdir): def is not tested.  With a NULL def the
\* read of def->backend_settings at line 126 is undefined: the process stops
\* there, or the call comes back having done whatever it did.
L209 ==
    /\ pc = "L209"
    /\ calls' = Append(calls, "render")
    /\ IF def = NullDef
       THEN Goto("crashed") \/ Goto("done")
       ELSE Goto("L126")
    /\ UNCHANGED <<def, rootdir, netdef_id, read_path, netdefs, ht, fileVars, emitVars, callVars, locVars, runVars>>

\* netplan_clear_netdefs(); once write_netplan_conf has returned
L210 ==
    /\ pc = "done"
    /\ calls # << >>
    /\ calls[Len(calls)] = "render"
    /\ netdefs' = << >>
    /\ calls' = Append(calls, "clear")
    /\ Goto("L211")
    /\ UNCHANGED <<def, rootdir, netdef_id, read_path, ht, fileVars, emitVars, callVars, locVars, runVars>>

_write_netplan_conf == L206 \/ L207 \/ L208 \/ L209 \/ L210

NextEntry == Next \/ _write_netplan_conf

\* the calls of the test-support entry point
SpecEntry == InitEntry /\ [][NextEntry]_vars

(* ------------------------------------------------------------ properties *)
\* yaml_emitter_emit calls made so far
Attempts == Len(events) + nfail

\* the render ran to its end with every call succeeding
CleanDone == pc = "done" /\ nfail = 0 /\ output = "closed"

\* indices of the events equal to e
Where(e) == {i \in 1..Len(events) : events[i] = e}

\* uuid, name and passthrough of a settings record are all absent
AllAbsent(bs) == bs.uuid = NULL /\ bs.name = NULL /\ DOMAIN bs.passthrough = {}

\* C1: once a Document Writer operation of a render has failed, no further
\* writer operation is attempted for that render, wherever the failure occurs
\* (write_match, write_access_points, write_backend_settings and the
\* passthrough iteration included).
C1_NoWriteAfterFailure == ~late

\* C2: in the Passthrough Emitter a failed write of a key or a value stops the
\* iteration (the handler is not entered for a later pair, no later key or
\* value is written) and write_backend_settings does not return TRUE.
C2_PassthroughFailureStops == ptfail => pc \notin {"L45", "L46", "L74"}

\* the keys of the definition-specific sections other than networkmanager
SectionKeys ==
    <<"match", "wakeonlan", "auto-config", "apn", "device-id", "network-id",
      "pin", "sim-id", "sim-operator-id", "access-points">>

\* the scalars of the document skeleton of definition d
SkeletonScalars(d) ==
    {"network", "version", "2", netplan_def_type_to_str[d.type], d.id,
     "renderer", netplan_backend_to_name[d.backend]}

\* the scalars a networkmanager mapping of settings bs may hold
SettingsScalars(bs) ==
    {"uuid", "name", "passthrough", bs.uuid, bs.name}
    \cup DOMAIN bs.passthrough \cup {bs.passthrough[k] : k \in DOMAIN bs.passthrough}

\* C3: for a definition of type `other`, whatever has_match, wake_on_lan, the
\* modem parameters and the access points are, the events hold no match,
\* wakeonlan, modem-parameter or access-points key: only the skeleton scalars
\* and, after them, at most one networkmanager mapping holding the
\* definition's own settings.
C3_OtherOnlySkeleton ==
    def.type = "OTHER" =>
        LET nm == Where(Plain("networkmanager"))
        IN  /\ \A i \in 1..Len(events) :
                   events[i].v \notin {SectionKeys[j] : j \in 1..Len(SectionKeys)}
            /\ Cardinality(nm) <= 1
            /\ nm # {} => ~AllAbsent(def.backend_settings)
            /\ \A i \in 1..Len(events) :
                   events[i].t = "scalar" =>
                       IF \E n \in nm : n < i
                       THEN events[i].v \in SettingsScalars(def.backend_settings)
                       ELSE events[i] = Plain("networkmanager")
                            \/ (events[i].style = "plain" /\ events[i].v \in SkeletonScalars(def))

C3_Witness ==
    /\ CleanDone
    /\ def.type = "OTHER"
    /\ def.has_match
    /\ def.wake_on_lan
    /\ def.modem_params.auto_config
    /\ def.modem_params.str["apn"] # NULL
    /\ DOMAIN def.access_points # {}
    /\ Where(Plain("networkmanager")) # {}

\* C4: the output handle acquired at the start of write_netplan_conf is closed
\* exactly once before the call returns, on every exit path, and a handle that
\* was never successfully opened is never closed nor handed to the writer.
C4_HandleClosedOnce ==
    /\ (ret # "none" /\ output # NULL) => (output = "closed" /\ nclose = 1)
    /\ output = NULL => (nclose = 0 /\ emitter = "uninit")

\* C5: when the output target cannot be opened, write_netplan_conf attempts no
\* Document Writer operation on it and does not go on into document emission:
\* from the failed fopen the call goes straight to its end.
C5_OpenFailureStopsRender ==
    output = NULL => (Attempts = 0 /\ pc \in {"L139", "done"})

\* C6: the render reports its outcome: a render in which an open, write or
\* close failed hands back a failure, a render in which all succeeded hands
\* back success, and the two differ.
C6_OutcomeReported ==
    pc = "done" =>
        IF nfail > 0 \/ output = NULL THEN ret = "failure" ELSE ret = "success"

\* the events written since the last `passthrough` key and its mapping start
PassthroughBlock ==
    LET i == CHOOSE n \in Where(Plain("passthrough")) :
                 \A m \in Where(Plain("passthrough")) : m <= n
    IN  SubSeq(events, i + 2, Len(events))

\* C7: when no write fails, the passthrough block of a record with a non-empty
\* passthrough mapping M holds exactly one key/value pair per entry of M and
\* nothing else: each key a plain scalar immediately followed by its own value
\* as a quoted scalar, none omitted, duplicated or paired with another value.
\* (Stated of the entries visited so far at each turn of the iteration, and of
\* all of M when the iteration has ended.)
C7_PassthroughComplete ==
    (pc \in {"L69", "L70"} /\ nfail = 0) =>
        LET b == PassthroughBlock
            visited == DOMAIN s.passthrough \ ptiter
        IN  /\ Len(b) = 2 * Cardinality(visited)
            /\ {b[2 * j - 1].v : j \in 1..Cardinality(visited)} = visited
            /\ \A j \in 1..Cardinality(visited) :
                   /\ b[2 * j - 1] = Plain(b[2 * j - 1].v)
                   /\ b[2 * j] = Quoted(s.passthrough[b[2 * j - 1].v])
            /\ pc = "L70" => visited = DOMAIN s.passthrough

C7_Witness ==
    /\ pc = "L70"
    /\ nfail = 0
    /\ Cardinality(DOMAIN s.passthrough) >= 2
    /\ Len(PassthroughBlock) = 4

\* the lines of write_backend_settings
SettingsLines == {"L52", "L53", "L54", "L55", "L59", "L63", "L65", "L69", "L70", "L72", "L74", "L75"}

\* C8: for a backend-settings record with uuid, name and passthrough all
\* absent, write_backend_settings makes no writer call at all (no event, no
\* failure) and returns TRUE, for the top-level settings and for an access
\* point's settings alike.
C8_EmptySettingsSilent ==
    [][(pc \in SettingsLines /\ AllAbsent(s)) =>
          /\ events' = events
          /\ nfail' = nfail
          /\ pc' \in {"L74", "L104", "L174"}
          /\ pc' \notin SettingsLines => rv']_vars

C8_Witness ==
    /\ pc = "L174"
    /\ sub = 1
    /\ rv
    /\ nfail = 0
    /\ AllAbsent(def.backend_settings)
    /\ def.type = "WIFI"
    /\ \E x \in DOMAIN def.access_points : AllAbsent(def.access_points[x].backend_settings)
    /\ Where(Plain("networkmanager")) = {}

\* nesting depth in front of event i: mappings started minus mappings ended
Depth(i) ==
    Cardinality({j \in 1..(i - 1) : events[j].t = "mapping-start"})
    - Cardinality({j \in 1..(i - 1) : events[j].t = "mapping-end"})

SectionKeySet == {SectionKeys[j] : j \in 1..Len(SectionKeys)}

Rank(k) == CHOOSE j \in 1..Len(SectionKeys) : SectionKeys[j] = k

\* the condition under which definition d has the section of key k
SectionPresent(d, k) ==
    CASE k = "match" -> d.has_match
      [] k = "wakeonlan" -> d.wake_on_lan
      [] k = "auto-config" -> d.modem_params.auto_config
      [] k = "apn" -> d.modem_params.str["apn"] # NULL
      [] k = "device-id" -> d.modem_params.str["device_id"] # NULL
      [] k = "network-id" -> d.modem_params.str["network_id"] # NULL
      [] k = "pin" -> d.modem_params.str["pin"] # NULL
      [] k = "sim-id" -> d.modem_params.str["sim_id"] # NULL
      [] k = "sim-operator-id" -> d.modem_params.str["sim_operator_id"] # NULL
      [] k = "access-points" -> d.type = "WIFI"

\* where the section keys stand in the events
SectionIdx == {i \in 1..Len(events) : events[i].style = "plain" /\ events[i].v \in SectionKeySet}

\* where the networkmanager key of the definition's own mapping stands
TopSettingsIdx == {i \in Where(Plain("networkmanager")) : Depth(i) = 4}

\* the top-level write_backend_settings call has returned TRUE
SectionsWritten == pc \in {"L177", "L178", "L179", "L182", "L183", "done"}

\* C9: for a definition whose type is not `other` the sections come after
\* `renderer` in the order match, wakeonlan, auto-config, apn, device-id,
\* network-id, pin, sim-id, sim-operator-id, access-points, top-level
\* networkmanager.  In every state, failed renders included: a section key is
\* written only if its condition holds, at most once, after `renderer` and
\* never before a key of an earlier section.  In a render without failure the
\* networkmanager key of the definition comes after all of them, and once the
\* sections are written each section whose condition holds is there.
C9_SectionOrder ==
    def.type # "OTHER" =>
        LET idx == SectionIdx
            top == TopSettingsIdx
            renderer == Where(Plain("renderer"))
        IN  /\ \A i \in idx :
                   /\ SectionPresent(def, events[i].v)
                   /\ \E r \in renderer : r < i
                   /\ \A j \in idx : i < j => Rank(events[i].v) < Rank(events[j].v)
            /\ nfail = 0 =>
                   /\ Cardinality(top) <= 1
                   /\ \A n \in top : \A i \in idx : i < n
                   /\ top # {} => ~AllAbsent(def.backend_settings)
            /\ (nfail = 0 /\ SectionsWritten) =>
                   /\ \A k \in SectionKeySet :
                          SectionPresent(def, k) => \E i \in idx : events[i].v = k
                   /\ ~AllAbsent(def.backend_settings) => top # {}

C9_Witness ==
    /\ CleanDone
    /\ def.type = "WIFI"
    /\ def.has_match
    /\ def.wake_on_lan
    /\ DOMAIN def.access_points # {}
    /\ Cardinality(SectionIdx) = Len(SectionKeys)
    /\ TopSettingsIdx # {}

\* the mode string an access point of mode m is to be written with
ExpectedMode(m) == IF m = "OTHER" THEN "infrastructure" ELSE netplan_wifi_mode_to_str[m]

WarnCount(x) == Cardinality({i \in 1..Len(warnings) : warnings[i] = x})

\* the access point of SSID x is in the events: its SSID once, its mapping,
\* the optional hidden pair, then the mode key with the expected value
APWritten(x) ==
    LET a == def.access_points[x]
        q == Where(Quoted(x))
    IN  /\ Cardinality(q) = 1
        /\ LET i == CHOOSE n \in q : TRUE
               j == i + 2 + (IF a.hidden THEN 2 ELSE 0)
           IN  /\ j + 1 <= Len(events)
               /\ events[i + 1] = MapStart
               /\ events[j] = Plain("mode")
               /\ events[j + 1] = Plain(ExpectedMode(a.mode))

\* the loop of write_access_points is not inside the body of an access point
BetweenAPs ==
    /\ Where(Plain("access-points")) # {}
    /\ pc \notin {"L85", "L86", "L89", "L90", "L91", "L95", "L96", "L100", "L101", "L104", "L105"}
    /\ \A n \in 1..Len(stack) : stack[n].pc # "L104"

\* C10: for every access point of a wifi definition exactly one `mode` key is
\* written, with the canonical string of its mode, or `infrastructure` for
\* the unsupported mode; the unsupported mode gives exactly one diagnostic for
\* that access point, a supported mode none, and the render is not aborted:
\* without a write failure it ends with every access point, the definition's
\* settings and the closing of the document written.
C10_ModeFallback ==
    /\ \A n \in 1..Len(warnings) :
           /\ warnings[n] \in DOMAIN def.access_points
           /\ def.access_points[warnings[n]].mode = "OTHER"
           /\ WarnCount(warnings[n]) = 1
    /\ (def.type = "WIFI" /\ nfail = 0 /\ BetweenAPs) =>
           LET visited == DOMAIN def.access_points \ iter
           IN  /\ \A x \in visited :
                      /\ APWritten(x)
                      /\ WarnCount(x) = (IF def.access_points[x].mode = "OTHER" THEN 1 ELSE 0)
               /\ Cardinality(Where(Plain("mode"))) = Cardinality(visited)
    /\ (def.type = "WIFI" /\ CleanDone) =>
           /\ iter = {}
           /\ ~AllAbsent(def.backend_settings) => TopSettingsIdx # {}
           /\ SubSeq(events, Len(events) - 5, Len(events))
                  = <<MapEnd, MapEnd, MapEnd, MapEnd, DocEnd, StreamEnd>>
           /\ Depth(Len(events) - 1) = 0

C10_Witness ==
    /\ CleanDone
    /\ def.type = "WIFI"
    /\ Cardinality(DOMAIN def.access_points) = 2
    /\ Len(warnings) = 1
    /\ Where(Plain("infrastructure")) # {}

\* C11: a `hidden` key is written for an access point if and only if its
\* hidden flag is set, and its value is always `true`; `hidden: false` is
\* never written.  In every state, failed renders included: a `hidden` key
\* stands right after the SSID and mapping start of an access point whose flag
\* is set and is followed by nothing but `true`.  In a render without failure
\* every visited access point whose flag is set has its own `hidden` key, and
\* there are no more keys than such access points.
C11_HiddenOnlyTrue ==
    LET hid == Where(Plain("hidden"))
    IN  /\ Where(Plain("false")) = {}
        /\ \A h \in hid :
               /\ h > 2
               /\ events[h - 1] = MapStart
               /\ events[h - 2].style = "quoted"
               /\ events[h - 2].v \in DOMAIN def.access_points
               /\ def.access_points[events[h - 2].v].hidden
               /\ h < Len(events) => events[h + 1] = Plain("true")
        /\ (def.type = "WIFI" /\ nfail = 0 /\ BetweenAPs) =>
               LET flagged == {x \in DOMAIN def.access_points \ iter : def.access_points[x].hidden}
               IN  /\ \A x \in flagged : \E h \in hid : events[h - 2] = Quoted(x)
                   /\ Cardinality(hid) = Cardinality(flagged)

C11_Witness ==
    /\ CleanDone
    /\ def.type = "WIFI"
    /\ \E x, y \in DOMAIN def.access_points :
           def.access_points[x].hidden /\ ~def.access_points[y].hidden
    /\ Cardinality(Where(Plain("hidden"))) = 1
    /\ Where(Plain("true")) # {}

\* the events written since the last `networkmanager` key and its mapping start
SettingsBlock ==
    LET nm == Where(Plain("networkmanager"))
        i == CHOOSE n \in nm : \A m \in nm : m <= n
    IN  SubSeq(events, i + 2, Len(events))

\* the lines at which the `networkmanager` key of the running
\* write_backend_settings call is written
InSettingsBlock ==
    \/ pc \in {"L54", "L55", "L59", "L63", "L65", "L69", "L70", "L72", "L45", "L46", "L47"}
    \/ pc = "L74" /\ ~AllAbsent(s)

\* the uuid and name pairs of settings bs as they are to be written
SettingsHead(bs) ==
    (IF bs.uuid # NULL THEN <<Plain("uuid"), Plain(bs.uuid)>> ELSE << >>)
    \o (IF bs.name # NULL THEN <<Plain("name"), Quoted(bs.name)>> ELSE << >>)

\* C12: inside a `networkmanager` mapping the fields come in the order uuid,
\* name, passthrough, for every subset of them that is present: a present
\* field is written exactly once, an absent one not at all, the uuid as a
\* plain scalar and the name as a quoted scalar.  In every state of the call,
\* failed renders included: no key of an absent field, no key twice, no key
\* before the key of an earlier field.  When the call returns TRUE without a
\* failure the mapping is the uuid pair, the name pair, then the passthrough
\* key with its mapping of one pair per entry, then the end of the mapping.
C12_SettingsFieldOrder ==
    InSettingsBlock =>
        LET b == SettingsBlock
            at(k) == {i \in 1..Len(b) : b[i] = Plain(k)}
            n == Cardinality(DOMAIN s.passthrough)
            h == SettingsHead(s)
        IN  /\ Cardinality(at("uuid")) <= Flag(s.uuid # NULL)
            /\ Cardinality(at("name")) <= Flag(s.name # NULL)
            /\ Cardinality(at("passthrough")) <= Flag(n > 0)
            /\ \A i \in at("uuid") : \A j \in at("name") \cup at("passthrough") : i < j
            /\ \A i \in at("name") : \A j \in at("passthrough") : i < j
            /\ \A i \in at("uuid") : i < Len(b) => b[i + 1] = Plain(s.uuid)
            /\ \A i \in at("name") : i < Len(b) => b[i + 1] = Quoted(s.name)
            /\ (pc = "L74" /\ nfail = 0) =>
                   /\ Len(b) = Len(h) + (IF n > 0 THEN 2 * n + 3 ELSE 0) + 1
                   /\ SubSeq(b, 1, Len(h)) = h
                   /\ n > 0 =>
                          /\ b[Len(h) + 1] = Plain("passthrough")
                          /\ b[Len(h) + 2] = MapStart
                          /\ {b[Len(h) + 1 + 2 * j].v : j \in 1..n} = DOMAIN s.passthrough
                          /\ b[Len(b) - 1] = MapEnd
                   /\ b[Len(b)] = MapEnd

C12_Witness ==
    /\ pc = "L74"
    /\ nfail = 0
    /\ s.uuid # NULL
    /\ s.name # NULL
    /\ DOMAIN s.passthrough # {}
    /\ Len(SettingsBlock) = Len(SettingsHead(s)) + 2 * Cardinality(DOMAIN s.passthrough) + 4

\* the file name the definition is to be written under
ExpectedName(d) ==
    IF d.backend_settings.uuid # NULL
    THEN <<"90-NM-", d.backend_settings.uuid, ".yaml">>
    ELSE <<"10-netplan-", d.id, ".yaml">>

\* <root>/etc/netplan/<filename>, the system root when no root is given
ExpectedPath(d, root) ==
    (IF root = NULL THEN << >> ELSE Tokens(root))
    \o <<"/", "etc", "/", "netplan", "/">> \o ExpectedName(d)

\* C13: the output path is a function of the definition and the root
\* directory only: the file name is `90-NM-<uuid>.yaml` when the top-level
\* settings carry a UUID and `10-netplan-<identifier>.yaml` otherwise, the path
\* is `<root>/etc/netplan/<filename>` with the system root when no root
\* directory is given, and no access point's UUID has a part in it.
C13_OutputPath ==
    pc # "L126" =>
        /\ path = ExpectedPath(def, rootdir)
        /\ \A i \in 1..Len(path) : path[i] # "uuid1"

\* C14: rendering the same definition twice to the same path, with no write
\* failure, leaves the file with exactly the content of a single render.  In
\* the second render the file never holds anything but events of that render
\* (the target was truncated), and when it has ended without failure the file
\* is the event sequence of the second render, which is the file the first
\* render left.
C14_RenderTwiceSame ==
    again =>
        /\ output \in {"open", "closed"} =>
               /\ Len(file) <= Len(events)
               /\ \A i \in 1..Len(file) : file[i] = events[i]
        /\ CleanDone => (file = events /\ file = first)

C14_Witness ==
    /\ again
    /\ CleanDone
    /\ def.type = "WIFI"
    /\ Cardinality(DOMAIN def.access_points) = 2
    /\ Cardinality(DOMAIN def.backend_settings.passthrough) = 2
    /\ file = first
    /\ Len(file) > 20

\* C15: whenever write_netplan_conf reaches stream finalization, the mappings
\* written are balanced, for every pattern of write failures that lets the
\* render get there: with the three closes of lines 177-179 written the depth
\* is back to the one in front of the `network` key (inside the root mapping
\* only), and it was never lower than that in between.
C15_BalancedAtFinalization ==
    (pc = "L182" /\ sub = 0) =>
        LET network == CHOOSE n \in Where(Plain("network")) : TRUE
        IN  /\ Depth(Len(events) + 1) = Depth(network)
            /\ \A i \in network..(Len(events) + 1) : Depth(i) >= Depth(network)

\* the pairs of passthrough list m for the keys of sequence ks
RECURSIVE ExpectedPairs(_, _)
ExpectedPairs(m, ks) ==
    IF ks = << >>
    THEN << >>
    ELSE <<Plain(Head(ks)), Quoted(m[Head(ks)])>> \o ExpectedPairs(m, Tail(ks))

\* the `networkmanager` mapping of settings bs, its passthrough entries in
\* the order ks; nothing for settings with every field absent
ExpectedSettings(bs, ks) ==
    IF AllAbsent(bs)
    THEN << >>
    ELSE <<Plain("networkmanager"), MapStart>> \o SettingsHead(bs)
         \o (IF DOMAIN bs.passthrough = {}
              THEN << >>
              ELSE <<Plain("passthrough"), MapStart>> \o ExpectedPairs(bs.passthrough, ks) \o <<MapEnd>>)
         \o <<MapEnd>>

\* the entry of access point a
ExpectedAP(a) ==
    <<Quoted(a.ssid), MapStart>>
    \o (IF a.hidden THEN <<Plain("hidden"), Plain("true")>> ELSE << >>)
    \o <<Plain("mode"), Plain(ExpectedMode(a.mode))>>
    \o ExpectedSettings(a.backend_settings, order[a.ssid])
    \o <<MapEnd>>

\* the entries of the access points of SSIDs xs, one after the other
RECURSIVE ExpectedAPs(_)
ExpectedAPs(xs) ==
    IF xs = << >>
    THEN << >>
    ELSE ExpectedAP(def.access_points[Head(xs)]) \o ExpectedAPs(Tail(xs))

\* C16: for every wifi definition rendered without write failure the
\* `access-points` mapping holds exactly one entry per access point of the
\* definition: the SSID as a quoted key, then one nested mapping with the
\* optional `hidden` pair, the `mode` pair and the access point's own backend
\* settings, in this order, closed before the next entry starts; the outer
\* mapping is closed after the last entry, and without access points it is
\* empty.  (Stated where write_access_points returns TRUE, the entries in the
\* order the table handed them out.)
C16_AccessPointEntries ==
    (def.type = "WIFI" /\ nfail = 0 /\ pc = "L108") =>
        LET xs == order["aps"]
            at == Where(Plain("access-points"))
        IN  /\ Len(xs) = Cardinality(DOMAIN def.access_points)
            /\ {xs[i] : i \in 1..Len(xs)} = DOMAIN def.access_points
            /\ \A x \in DOMAIN def.access_points :
                   /\ Len(order[x]) = Cardinality(DOMAIN def.access_points[x].backend_settings.passthrough)
                   /\ {order[x][i] : i \in 1..Len(order[x])}
                          = DOMAIN def.access_points[x].backend_settings.passthrough
            /\ Cardinality(at) = 1
            /\ \A i \in at :
                   SubSeq(events, i, Len(events))
                       = <<Plain("access-points"), MapStart>> \o ExpectedAPs(xs) \o <<MapEnd>>

C16_Witness ==
    /\ pc = "L108"
    /\ nfail = 0
    /\ def.type = "WIFI"
    /\ Len(order["aps"]) = 2
    /\ \E x, y \in DOMAIN def.access_points :
           /\ def.access_points[x].hidden
           /\ ~AllAbsent(def.access_points[x].backend_settings)
           /\ ~def.access_points[y].hidden
    /\ Cardinality(Where(MapEnd)) >= 3

\* C17: for every definition not of type `other` that declares a match, the
\* `match` mapping written holds exactly one `name` field, the original
\* hardware name as a quoted scalar; a `match` mapping without a `name` field
\* is never written.  (Stated where write_match returns TRUE in a render
\* without failure: the call has written the key, the mapping start, the
\* `name` pair and the mapping end, and nothing else.)
C17_MatchHasName ==
    (def.type # "OTHER" /\ def.has_match /\ nfail = 0 /\ pc = "L31") =>
        LET at == Where(Plain("match"))
        IN  /\ Cardinality(at) = 1
            /\ \A i \in at :
                   SubSeq(events, i, Len(events))
                       = <<Plain("match"), MapStart, Plain("name"), Quoted(def.original_name), MapEnd>>

\* the collaborator calls of _write_netplan_conf, in the order required
CallOrder == <<"parse", "finalize", "lookup", "render", "clear">>

\* C18: in _write_netplan_conf the calls come in the order parse, finalize,
\* lookup, render, clear, and write_netplan_conf is only called with a
\* definition the lookup found: for a netdef_id that is not in the registry
\* no render is started.
C18_RenderOnlyFound ==
    /\ Len(calls) <= Len(CallOrder)
    /\ \A i \in 1..Len(calls) : calls[i] = CallOrder[i]
    /\ (\E i \in 1..Len(calls) : calls[i] = "render") =>
           (netdef_id \in DOMAIN ht /\ def = ht[netdef_id])

====
